---- MODULE Spec2Model ----
(***************************************************************************)
(* A model of tango_exporter (src/tango_exporter/__init__.py): the         *)
(* registry and supervisor queries (get_server_process, get_local_servers, *)
(* get_starter, get_starter_servers, get_proxy) and the publishing loop    *)
(* gather_data with its ten gauges.                                        *)
(*                                                                         *)
(* Text is a sequence of tokens: a token stands for one character or for   *)
(* an unbroken run of characters ("Foo/", "ON"); "\t" is the tab.          *)
(* An optional value is a sequence of length 0 (None, no series) or 1.     *)
(***************************************************************************)
EXTENDS Integers, Sequences, FiniteSets, TLC

\* ------------------------------------------------------------------ bounds

MaxTicks == 2
MaxEnvChanges == 1
LongTicks == 61
LongEnvChanges == 2
MaxLines == 2

\* ------------------------------------------------------- program constants

\* gather_data line 140: the refresh happens when i % 60 == 0
RefreshPeriod == 60

\* ------------------------------------------------------------ the universe

TAB == "\t"
Starter == <<"Starter/", "h">>
Foo == <<"Foo/", "1">>
Bar == <<"Bar/", "1">>
Servers == {Starter, Foo, Bar}

None == <<>>
Some(x) == <<x>>

\* info.pid as the registry reports it for dserver/<name>
Pid == [s \in Servers |->
          IF s = Starter THEN 100 ELSE IF s = Foo THEN 101 ELSE 102]

\* "dserver/%s" % name (lines 59, 189)
Dserver(name) == <<"dserver/">> \o name

\* The eight process gauges (lines 110-123) and the two starter gauges
\* (lines 125-132); the label tuple (host, server, tango_host) varies only
\* in its server.
ProcessMetrics == {"running", "cpu_time_user", "cpu_time_system",
                   "cpu_percent", "mem_rss", "mem_data", "threads_n",
                   "dserver_ping"}
StarterMetrics == {"starter_controlled", "starter_level"}
Metrics == ProcessMetrics \cup StarterMetrics

\* What psutil reads for the process with a given pid, and what a ping of
\* its dserver returns (a round-trip time).
Reading(pid) == [cpu_time_user |-> pid * 10 + 1, cpu_time_system |-> pid * 10 + 2,
                 cpu_percent |-> pid * 10 + 3, mem_rss |-> pid * 10 + 4,
                 mem_data |-> pid * 10 + 5, threads_n |-> pid * 10 + 6]
PingTime(name) == Pid[name] * 10 + 7

VARIABLES
    \* the environment ----------------------------------------------------
    hostList,   \* db.get_host_server_list(host), as the set of its names
    exported,   \* [server -> BOOLEAN]: info.exported of dserver/<server>
    pingOk,     \* [server -> BOOLEAN]: a ping of dserver/<server> succeeds
    alive,      \* [server -> BOOLEAN]: the OS has a process with Pid[server]
    attr,       \* the starter's Servers attribute: a sequence of lines
    changes,    \* environment events so far
    py3,        \* the interpreter: dict.items() is a live view (Python 3)
                \* or a copied list (Python 2)
    hasData,    \* the platform: memory_info() has a "data" field
    \* the program --------------------------------------------------------
    pc,         \* "init", "loop", "crashed" (left by an exception); for a
                \* lone call of get_starter_servers: "call", "parsed"
    i,          \* gather_data's tick counter
    servers,    \* the tracked table: [name -> None or Some(pid)]
    starter_servers, \* the supervisor snapshot: [name -> [ok, level]]
    todo,       \* the servers the running scan (line 152) has yet to visit
    proxies,    \* get_proxy's cache: [device path -> handle], a handle
                \* being the serial of the DeviceProxy built for the path
    gauge,      \* [metric -> [server -> None or Some(value)]]
    \* what happened, for the properties ----------------------------------
    raised,     \* the exception that left gather_data ("" while it runs)
    seen,       \* [name -> what the latest resolution of the name saw]
    popped,     \* [name -> why the scan popped it since the latest refresh]
    quiet,      \* the ticks begun since the last environment event (up to 2)
    prevGauge,  \* the gauges as the previous tick left them
    read,       \* [name -> did the ping of line 190 answer], for the servers
                \* whose process the running tick has read
    resolvedAt, \* [name -> the tick of its latest get_server_process]
    fetched,    \* the latest fetch of the snapshot: None or
                \* Some([tick, snapshot])
    lost        \* [name -> the tick whose read of it raised NoSuchProcess]

env == <<hostList, exported, pingOk, alive, attr, py3, hasData>>
prog == <<pc, i, servers, starter_servers, todo, proxies, gauge, raised, seen,
          popped, prevGauge, read, resolvedAt, fetched, lost>>
vars == <<hostList, exported, pingOk, alive, attr, changes, py3, hasData,
          pc, i, servers, starter_servers, todo, proxies, gauge,
          raised, seen, popped, quiet, prevGauge, read, resolvedAt, fetched,
          lost>>

\* ------------------------------------------------------------ text helpers

\* str.split("\t") (line 94): the fields between the tabs, empty ones kept.
RECURSIVE SplitRec(_, _)
SplitRec(rest, cur) ==
    IF rest = <<>> THEN <<cur>>
    ELSE IF Head(rest) = TAB THEN <<cur>> \o SplitRec(Tail(rest), <<>>)
    ELSE SplitRec(Tail(rest), Append(cur, Head(rest)))

Split(line) == SplitRec(line, <<>>)

Digits == {"0", "1", "2", "3", "4", "5", "6", "7", "8", "9"}
DigitVal == ("0" :> 0) @@ ("1" :> 1) @@ ("2" :> 2) @@ ("3" :> 3) @@ ("4" :> 4)
            @@ ("5" :> 5) @@ ("6" :> 6) @@ ("7" :> 7) @@ ("8" :> 8) @@ ("9" :> 9)

RECURSIVE DecimalValue(_, _)
DecimalValue(text, acc) ==
    IF text = <<>> THEN acc
    ELSE DecimalValue(Tail(text), acc * 10 + DigitVal[Head(text)])

\* int(level) (line 99): Some(n), or None where int raises ValueError.
IntOf(text) ==
    IF text # <<>> /\ \A k \in 1..Len(text) : text[k] \in Digits
    THEN Some(DecimalValue(text, 0))
    ELSE None

\* name.startswith(prefix) (line 39)
StartsWith(name, prefix) ==
    /\ Len(name) >= Len(prefix)
    /\ SubSeq(name, 1, Len(prefix)) = prefix

EmptyDict == [x \in {} |-> None]

\* d[k] = v on a dict
DictSet(d, k, v) == (k :> v) @@ d

\* d.pop(k)
DictPop(d, k) == [x \in (DOMAIN d) \ {k} |-> d[x]]

\* ------------------------------------------------- get_starter_servers

\* A variant that filters on the controlled flag (the condition line 97
\* comments out) instead of the level.
RECURSIVE StarterLinesByFlag(_, _)
StarterLinesByFlag(info, result) ==
    IF info = <<>> THEN [raised |-> FALSE, result |-> result]
    ELSE LET fields == Split(Head(info)) IN
         IF Len(fields) # 4 THEN [raised |-> TRUE, result |-> result]
         ELSE IF fields[3] = <<"1">>
              THEN IF IntOf(fields[4]) = None
                   THEN [raised |-> TRUE, result |-> result]
                   ELSE StarterLinesByFlag(Tail(info),
                          DictSet(result, fields[1],
                                  [ok |-> fields[2] = <<"ON">>,
                                   level |-> IntOf(fields[4])[1]]))
              ELSE StarterLinesByFlag(Tail(info), result)

\* The body of the loop of get_starter_servers (lines 93-101) over the
\* lines still to read; raised: line 94's unpacking or line 99's int raised
\* ValueError, which get_starter_servers does not catch.
RECURSIVE StarterLines(_, _)
StarterLines(info, result) ==
    IF info = <<>> THEN [raised |-> FALSE, result |-> result]
    ELSE LET fields == Split(Head(info)) IN
         IF Len(fields) # 4 THEN [raised |-> TRUE, result |-> result]
         ELSE LET server == fields[1]
                  state == fields[2]
                  level == fields[4]
              IN  IF level # <<"0">>
                  THEN IF IntOf(level) = None
                       THEN [raised |-> TRUE, result |-> result]
                       ELSE StarterLines(Tail(info),
                              DictSet(result, server,
                                      [ok |-> state = <<"ON">>,
                                       level |-> IntOf(level)[1]]))
                  ELSE StarterLines(Tail(info), result)

get_starter_servers(info) == StarterLines(info, EmptyDict)

\* ------------------------------------------------------- directory client

\* A variant without the test of line 51: every call builds a DeviceProxy
\* and stores it over the one the cache held.
get_proxy_uncached(px, device) ==
    DictSet(px, device, IF device \in DOMAIN px THEN px[device] + 1 ELSE 1)

\* get_proxy (lines 49-54): the cache after a call for `device`; line 53
\* builds a DeviceProxy only for a path the cache does not hold.
get_proxy(px, device) ==
    IF device \in DOMAIN px THEN px ELSE DictSet(px, device, 1)

\* The handle a call of get_proxy returns (lines 52, 54).
ProxyOf(px, device) == get_proxy(px, device)[device]

\* A variant that trusts the registry's PID without the ping of lines 64-72.
get_server_process_unpinged(name, px, infoFails) ==
    IF infoFails THEN [process |-> None, proxies |-> px]
    ELSE IF ~exported[name] THEN [process |-> None, proxies |-> px]
    ELSE IF ~alive[name] THEN [process |-> None, proxies |-> px]
    ELSE [process |-> Some(Pid[name]), proxies |-> px]

\* A variant that gets the proxy of the dserver before it looks at
\* info.exported.
get_server_process_eager(name, px, infoFails) ==
    IF infoFails THEN [process |-> None, proxies |-> px]
    ELSE LET px2 == get_proxy(px, Dserver(name)) IN
         IF ~exported[name] THEN [process |-> None, proxies |-> px2]
         ELSE IF ~pingOk[name] THEN [process |-> None, proxies |-> px2]
         ELSE IF ~alive[name] THEN [process |-> None, proxies |-> px2]
         ELSE [process |-> Some(Pid[name]), proxies |-> px2]

\* get_server_process (lines 57-80) for `name`, with the cache px;
\* infoFails: db.get_device_info raises DevFailed (line 77).
\* Returns the process (None or Some(pid)) and the cache after the call.
get_server_process(name, px, infoFails) ==
    IF infoFails THEN [process |-> None, proxies |-> px]
    ELSE IF ~exported[name] THEN [process |-> None, proxies |-> px]
    ELSE LET px2 == get_proxy(px, Dserver(name)) IN
         IF ~pingOk[name] THEN [process |-> None, proxies |-> px2]
         ELSE IF ~alive[name] THEN [process |-> None, proxies |-> px2]
         ELSE [process |-> Some(Pid[name]), proxies |-> px2]

\* A variant that resolves the host's servers on the first tick only and
\* hands back the tracked table afterwards.
get_local_servers_once(px, failing) ==
    IF i > 0 THEN [servers |-> servers, proxies |-> px]
    ELSE LET one(s) == get_server_process(s, px, s \in failing)
             paths == DOMAIN px \cup UNION {DOMAIN one(s).proxies : s \in hostList}
         IN  [servers |-> [s \in hostList |-> one(s).process],
              proxies |-> [d \in paths |->
                             IF \E s \in hostList : d = Dserver(s)
                             THEN 1 ELSE px[d]]]

\* get_local_servers (lines 83-86) when db.get_host_server_list answers;
\* failing: the names whose get_device_info raises DevFailed.
get_local_servers(px, failing) ==
    LET names == hostList
        one(s) == get_server_process(s, px, s \in failing)
        paths == DOMAIN px \cup UNION {DOMAIN one(s).proxies : s \in names}
        callOf(d) == {s \in names : d = Dserver(s) /\ d \in DOMAIN one(s).proxies}
    IN  [servers |-> [s \in names |-> one(s).process],
         proxies |-> [d \in paths |->
                        IF callOf(d) # {}
                        THEN one(CHOOSE s \in callOf(d) : TRUE).proxies[d]
                        ELSE px[d]]]

\* db.get_device_class_list(server) (line 40): device, class, device, class...
StarterDevice == <<"tango/admin/", "h">>
ClassList(server) ==
    IF server = Starter
    THEN <<Dserver(server), <<"DServer">>, StarterDevice, <<"Starter">>>>
    ELSE <<Dserver(server), <<"DServer">>>>

\* get_starter (lines 35-43) over the dict get_local_servers returned:
\* None, or Some(device) for the device of class Starter.
get_starter(localServers) ==
    LET starters == {x \in DOMAIN localServers : StartsWith(x, <<"Starter/">>)}
        devsOf(s) == {ClassList(s)[2 * k - 1] :
                        k \in {j \in 1..(Len(ClassList(s)) \div 2) :
                                 ClassList(s)[2 * j] = <<"Starter">>}}
        devs == UNION {devsOf(s) : s \in starters}
    IN  IF devs = {} THEN None ELSE Some(CHOOSE d \in devs : TRUE)

\* ------------------------------------------------------------- the gauges

NoSeries == [m \in Metrics |-> [s \in Servers |-> None]]

\* lines 144-147: the starter gauges of every server of the snapshot
StarterGauges(g, snapshot) ==
    [m \in Metrics |-> [s \in Servers |->
        IF s \in DOMAIN snapshot /\ m = "starter_controlled" THEN Some(1)
        ELSE IF s \in DOMAIN snapshot /\ m = "starter_level"
             THEN Some(snapshot[s].level)
        ELSE g[m][s]]]

\* lines 160-170: the cleanup of a server that is not running (removing a
\* series that does not exist raises, and line 168 swallows that)
CleanupStopped(g, server, snapshot) ==
    [m \in Metrics |-> [s \in Servers |->
        IF s # server \/ m \notin ProcessMetrics THEN g[m][s]
        ELSE IF m = "running" /\ server \in DOMAIN snapshot THEN Some(0)
        ELSE None]]

\* A variant of the cleanup after psutil.NoSuchProcess that removes the
\* gauges the read sets and leaves dserver_ping.
CleanupGoneKeepingPing(g, server) ==
    [m \in Metrics |-> [s \in Servers |->
        IF s = server /\ m \in ProcessMetrics \ {"dserver_ping"}
        THEN None ELSE g[m][s]]]

\* lines 203-207: the cleanup after psutil.NoSuchProcess
CleanupGone(g, server) ==
    [m \in Metrics |-> [s \in Servers |->
        IF s = server /\ m \in ProcessMetrics THEN None ELSE g[m][s]]]

\* A variant whose except branch (lines 192-194) leaves dserver_ping as it
\* was instead of setting it to -1.
PublishReadKeepingPing(g, server, pid, pinged, snapshot) ==
    [m \in Metrics |-> [s \in Servers |->
        IF s # server THEN g[m][s]
        ELSE IF m \in {"cpu_time_user", "cpu_time_system", "cpu_percent",
                       "mem_rss", "threads_n"} THEN Some(Reading(pid)[m])
        ELSE IF m = "mem_data"
             THEN IF hasData THEN Some(Reading(pid)[m]) ELSE g[m][s]
        ELSE IF m = "dserver_ping"
             THEN IF pinged THEN Some(PingTime(server)) ELSE g[m][s]
        ELSE IF m = "running" THEN IF pinged THEN Some(1) ELSE Some(0)
        ELSE IF m = "starter_controlled" /\ server \notin DOMAIN snapshot
             THEN Some(0)
        ELSE g[m][s]]]

\* lines 175-197: the gauges after a successful read of the process `pid` of
\* `server`; pinged: the ping of line 190 succeeded.
PublishRead(g, server, pid, pinged, snapshot) ==
    [m \in Metrics |-> [s \in Servers |->
        IF s # server THEN g[m][s]
        ELSE IF m \in {"cpu_time_user", "cpu_time_system", "cpu_percent",
                       "mem_rss", "threads_n"} THEN Some(Reading(pid)[m])
        ELSE IF m = "mem_data"
             THEN IF hasData THEN Some(Reading(pid)[m]) ELSE g[m][s]
        ELSE IF m = "dserver_ping"
             THEN IF pinged THEN Some(PingTime(server)) ELSE Some(-1)
        ELSE IF m = "running" THEN IF pinged THEN Some(1) ELSE Some(0)
        ELSE IF m = "starter_controlled" /\ server \notin DOMAIN snapshot
             THEN Some(0)
        ELSE g[m][s]]]

\* --------------------------------------------------------- the environment

\* One record of the Servers attribute: server, state, controlled, level
Rec(server, state, controlled, level) ==
    server \o <<TAB, state, TAB, controlled, TAB>> \o level

\* The values the Servers attribute takes in the runs of gather_data
StarterAttrs ==
    { <<Rec(Bar, "OFF", "1", <<"0">>)>>,
      <<Rec(Foo, "ON", "1", <<"3">>)>>,
      <<Rec(Foo, "FAULT", "0", <<"1">>), Rec(Bar, "ON", "1", <<"2">>)>>,
      <<Rec(Foo, "ON", "1", <<"3">>), <<"Bar/", "1", TAB, "ON">>>> }

Up(s) == exported[s] /\ pingOk[s] /\ alive[s]

InitEnv ==
    /\ hostList \in SUBSET Servers
    /\ exported \in [Servers -> BOOLEAN]
    /\ pingOk = exported
    /\ alive = exported
    /\ attr \in StarterAttrs
    /\ py3 \in BOOLEAN
    /\ hasData \in BOOLEAN

InitState ==
    /\ i = 0
    /\ servers = EmptyDict
    /\ starter_servers = EmptyDict
    /\ todo = {}
    /\ proxies = EmptyDict
    /\ gauge = NoSeries
    /\ raised = ""
    /\ seen = EmptyDict
    /\ popped = EmptyDict
    /\ prevGauge = NoSeries
    /\ read = EmptyDict
    /\ resolvedAt = EmptyDict
    /\ fetched = None
    /\ lost = EmptyDict
    /\ changes = 0
    /\ quiet = 0

InitProg == pc = "init" /\ InitState

Init == InitEnv /\ InitProg

Running == pc \in {"init", "loop"}

EnvEvent ==
    /\ Running
    /\ changes' = changes + 1
    /\ quiet' = 0
    /\ UNCHANGED <<py3, hasData>>
    /\ UNCHANGED prog

\* A server process is started: it exports itself and answers pings.
ProcessStart(s) ==
    /\ EnvEvent
    /\ ~alive[s]
    /\ exported' = [exported EXCEPT ![s] = TRUE]
    /\ pingOk' = [pingOk EXCEPT ![s] = TRUE]
    /\ alive' = [alive EXCEPT ![s] = TRUE]
    /\ UNCHANGED <<hostList, attr>>

\* A server process is stopped in order: it unexports itself.
ProcessStop(s) ==
    /\ EnvEvent
    /\ alive[s] /\ pingOk[s]
    /\ exported' = [exported EXCEPT ![s] = FALSE]
    /\ pingOk' = [pingOk EXCEPT ![s] = FALSE]
    /\ alive' = [alive EXCEPT ![s] = FALSE]
    /\ UNCHANGED <<hostList, attr>>

\* A server process crashes: the registry still has it exported.
ProcessCrash(s) ==
    /\ EnvEvent
    /\ alive[s] /\ pingOk[s]
    /\ pingOk' = [pingOk EXCEPT ![s] = FALSE]
    /\ alive' = [alive EXCEPT ![s] = FALSE]
    /\ UNCHANGED <<hostList, exported, attr>>

\* A server process stops answering on its control channel.
ProcessHang(s) ==
    /\ EnvEvent
    /\ alive[s] /\ pingOk[s]
    /\ pingOk' = [pingOk EXCEPT ![s] = FALSE]
    /\ UNCHANGED <<hostList, exported, alive, attr>>

\* After a crash an unrelated process takes over the PID.
PidReused(s) ==
    /\ EnvEvent
    /\ exported[s] /\ ~alive[s]
    /\ alive' = [alive EXCEPT ![s] = TRUE]
    /\ UNCHANGED <<hostList, exported, pingOk, attr>>

\* The registry's server list of the host changes.
HostListChange(s) ==
    /\ EnvEvent
    /\ hostList' = IF s \in hostList THEN hostList \ {s} ELSE hostList \cup {s}
    /\ UNCHANGED <<exported, pingOk, alive, attr>>

\* The supervisor's table changes.
SupervisorChange(a) ==
    /\ EnvEvent
    /\ a # attr
    /\ attr' = a
    /\ UNCHANGED <<hostList, exported, pingOk, alive>>

\* ------------------------------------------------------------ gather_data

\* The exception e (named with the line that raises it) leaves gather_data:
\* nothing catches it, main() ends.
Crash(e) == pc' = "crashed" /\ raised' = e

\* What a resolution of the names of the host list sees of each.
Seen(failing) ==
    [s \in hostList |-> [exported |-> exported[s], pingOk |-> pingOk[s],
                         alive |-> alive[s], infoFails |-> s \in failing]]

\* The sets of names whose db.get_device_info may raise DevFailed in one
\* call of get_local_servers.
FailingSets(infoMayFail) == IF infoMayFail THEN SUBSET hostList ELSE {{}}

\* Line 135: starter = PyTango.DeviceProxy(get_starter()). get_starter's
\* get_local_servers pings every exported server; DeviceProxy(None) raises.
Setup(infoMayFail) ==
    /\ pc = "init"
    /\ UNCHANGED env
    /\ UNCHANGED <<changes, quiet>>
    /\ UNCHANGED <<i, servers, starter_servers, todo, gauge, seen, popped,
                   prevGauge, read, resolvedAt, fetched, lost>>
    /\ \/ \* line 37: db.get_host_server_list raises DevFailed
          /\ Crash("DevFailed@37")
          /\ UNCHANGED proxies
       \/ \E failing \in FailingSets(infoMayFail) :
            LET ls == get_local_servers(proxies, failing) IN
            /\ proxies' = ls.proxies
            /\ IF get_starter(ls.servers) = None
               THEN Crash("DeviceProxy(None)@135")
               ELSE pc' = "loop" /\ UNCHANGED raised

\* The starter can answer a read of its Servers attribute.
StarterResponsive == alive[Starter] /\ pingOk[Starter]

\* A tick begins: what the properties remember of it.
TickBegins ==
    /\ quiet' = IF quiet < 2 THEN quiet + 1 ELSE quiet
    /\ prevGauge' = gauge
    /\ read' = EmptyDict
    /\ UNCHANGED changes

\* Lines 140-149 on a tick with i % 60 == 0, and the items() of line 152.
Refresh(maxTicks, infoMayFail) ==
    /\ pc = "loop" /\ todo = {} /\ i < maxTicks
    /\ i % RefreshPeriod = 0
    /\ UNCHANGED env
    /\ \/ \* line 142: db.get_host_server_list raises DevFailed
          /\ Crash("DevFailed@142")
          /\ UNCHANGED <<i, servers, starter_servers, todo, proxies, gauge,
                         seen, popped, prevGauge, quiet, changes, read,
                         resolvedAt, fetched, lost>>
       \/ \E failing \in FailingSets(infoMayFail) :
            LET ls == get_local_servers(proxies, failing)
                parsed == get_starter_servers(attr)
            IN
            /\ servers' = ls.servers
            /\ proxies' = ls.proxies
            /\ seen' = Seen(failing)
            /\ popped' = EmptyDict
            /\ resolvedAt' = [s \in hostList |-> i + 1] @@ resolvedAt
            /\ UNCHANGED lost
            /\ \/ \* line 143: read_attribute raises DevFailed
                  /\ Crash("DevFailed@143")
                  /\ read' = EmptyDict
                  /\ UNCHANGED <<i, starter_servers, todo, gauge,
                                 prevGauge, quiet, changes, fetched>>
               \/ \* line 143: get_starter_servers raises ValueError
                  /\ StarterResponsive
                  /\ parsed.raised
                  /\ Crash("ValueError@143")
                  /\ read' = EmptyDict
                  /\ UNCHANGED <<i, starter_servers, todo, gauge,
                                 prevGauge, quiet, changes, fetched>>
               \/ /\ StarterResponsive
                  /\ ~parsed.raised
                  /\ starter_servers' = parsed.result
                  /\ fetched' = Some([tick |-> i + 1, snapshot |-> parsed.result])
                  /\ gauge' = StarterGauges(gauge, parsed.result)
                  /\ i' = i + 1
                  /\ todo' = DOMAIN ls.servers
                  /\ TickBegins
                  /\ UNCHANGED <<pc, raised>>

\* A variant of a tick with i % 60 != 0 that fetches the snapshot as a
\* refresh tick does (lines 143-147).
NoRefreshFetching(maxTicks) ==
    /\ pc = "loop" /\ todo = {} /\ i < maxTicks
    /\ i % RefreshPeriod # 0
    /\ StarterResponsive
    /\ ~get_starter_servers(attr).raised
    /\ starter_servers' = get_starter_servers(attr).result
    /\ fetched' = Some([tick |-> i + 1, snapshot |-> starter_servers'])
    /\ gauge' = StarterGauges(gauge, starter_servers')
    /\ i' = i + 1
    /\ todo' = DOMAIN servers
    /\ TickBegins
    /\ UNCHANGED <<pc, servers, proxies, raised, seen, popped, resolvedAt, lost>>
    /\ UNCHANGED env

\* A variant of a tick with i % 60 != 0 that rebuilds the tracked table as
\* a refresh tick does (line 142).
NoRefreshResolving(maxTicks) ==
    /\ pc = "loop" /\ todo = {} /\ i < maxTicks
    /\ i % RefreshPeriod # 0
    /\ servers' = get_local_servers(proxies, {}).servers
    /\ proxies' = get_local_servers(proxies, {}).proxies
    /\ seen' = Seen({})
    /\ popped' = EmptyDict
    /\ resolvedAt' = [s \in hostList |-> i + 1] @@ resolvedAt
    /\ i' = i + 1
    /\ todo' = DOMAIN servers'
    /\ TickBegins
    /\ UNCHANGED <<pc, starter_servers, gauge, raised, fetched, lost>>
    /\ UNCHANGED env

\* Lines 140, 149, 152 on a tick with i % 60 != 0.
NoRefresh(maxTicks) ==
    /\ pc = "loop" /\ todo = {} /\ i < maxTicks
    /\ i % RefreshPeriod # 0
    /\ i' = i + 1
    /\ todo' = DOMAIN servers
    /\ TickBegins
    /\ UNCHANGED <<pc, servers, starter_servers, proxies, gauge, raised, seen,
                   popped, resolvedAt, fetched, lost>>
    /\ UNCHANGED env

\* After servers.pop(server) inside the loop over servers.items(): Python 2
\* iterates over a copied list and goes on; Python 3 iterates over a view
\* and raises RuntimeError at the loop's next step, which nothing catches.
AfterPop(server) ==
    /\ todo' = todo \ {server}
    /\ IF py3
       THEN Crash("RuntimeError@152")
       ELSE UNCHANGED <<pc, raised>>

\* Lines 156-171: the visit of a server whose process is None.
VisitStopped(server) ==
    /\ pc = "loop" /\ server \in todo
    /\ servers[server] = None
    /\ servers' = DictPop(servers, server)
    /\ popped' = DictSet(popped, server, "None")
    /\ gauge' = CleanupStopped(gauge, server, starter_servers)
    /\ AfterPop(server)
    /\ UNCHANGED <<i, starter_servers, proxies, seen, prevGauge, quiet, changes,
                   read, resolvedAt, fetched, lost>>
    /\ UNCHANGED env

\* Lines 173-197: the visit of a server whose process answers every read.
VisitRunning(server) ==
    /\ pc = "loop" /\ server \in todo
    /\ servers[server] # None
    /\ alive[server]
    /\ proxies' = get_proxy(proxies, Dserver(server))
    /\ gauge' = PublishRead(gauge, server, servers[server][1], pingOk[server],
                            starter_servers)
    /\ read' = DictSet(read, server, pingOk[server])
    /\ todo' = todo \ {server}
    /\ UNCHANGED <<pc, i, servers, starter_servers, raised, seen, popped,
                   prevGauge, quiet, changes, resolvedAt, fetched, lost>>
    /\ UNCHANGED env

\* Lines 199-207: a read of the process raises psutil.NoSuchProcess. The
\* gauges set before the failing read are removed with the others.
VisitGone(server) ==
    /\ pc = "loop" /\ server \in todo
    /\ servers[server] # None
    /\ ~alive[server]
    /\ servers' = DictPop(servers, server)
    /\ popped' = DictSet(popped, server, "NoSuchProcess")
    /\ gauge' = CleanupGone(gauge, server)
    /\ lost' = DictSet(lost, server, i)
    /\ AfterPop(server)
    /\ UNCHANGED <<i, starter_servers, proxies, seen, prevGauge, quiet, changes,
                   read, resolvedAt, fetched>>
    /\ UNCHANGED env

EnvironmentOf(S) ==
    \/ \E s \in S : ProcessStart(s)
    \/ \E s \in S : ProcessStop(s)
    \/ \E s \in S : ProcessCrash(s)
    \/ \E s \in S : ProcessHang(s)
    \/ \E s \in S : PidReused(s)
    \/ \E s \in S : HostListChange(s)
    \/ \E a \in StarterAttrs : SupervisorChange(a)

\* Two ticks of the loop with every server's environment free to change once,
\* at any point of a tick.
Next ==
    \/ (changes < MaxEnvChanges /\ EnvironmentOf(Servers))
    \/ Setup(TRUE)
    \/ Refresh(MaxTicks, TRUE)
    \/ NoRefresh(MaxTicks)
    \/ \E s \in Servers : VisitStopped(s)
    \/ \E s \in Servers : VisitRunning(s)
    \/ \E s \in Servers : VisitGone(s)

Spec == Init /\ [][Next]_vars

\* The same program over more than one refresh period: it starts with the
\* starter and one server registered and the starter up, and between ticks
\* the environment of that server, or the supervisor's table, changes; the
\* registry answers every get_device_info.
InitLong ==
    /\ InitProg
    /\ hostList = {Starter, Foo}
    /\ exported \in {e \in [Servers -> BOOLEAN] : e[Starter] /\ ~e[Bar]}
    /\ pingOk = exported
    /\ alive = exported
    /\ attr \in StarterAttrs
    /\ py3 \in BOOLEAN
    /\ hasData = TRUE

NextLong ==
    \/ (changes < LongEnvChanges /\ todo = {} /\ EnvironmentOf({Foo}))
    \/ Setup(FALSE)
    \/ Refresh(LongTicks, FALSE)
    \/ NoRefresh(LongTicks)
    \/ \E s \in Servers : VisitStopped(s)
    \/ \E s \in Servers : VisitRunning(s)
    \/ \E s \in Servers : VisitGone(s)

SpecLong == InitLong /\ [][NextLong]_vars

\* ------------------------------------- get_starter_servers, called alone

Levels == {<<"0">>, <<"3">>, <<"1", "0">>, <<"0", "0">>}
LevelValue == (<<"0">> :> 0) @@ (<<"3">> :> 3) @@ (<<"1", "0">> :> 10)
              @@ (<<"0", "0">> :> 0)

\* The well-formed records (server, state, controlled, level) and their lines
WellFormedRecords == {Foo, Bar} \X {"ON", "FAULT"} \X {"0", "1"} \X Levels
LineOf(r) == Rec(r[1], r[2], r[3], r[4])
WellFormedLines == {LineOf(r) : r \in WellFormedRecords}
RecordOf(line) == CHOOSE r \in WellFormedRecords : LineOf(r) = line

\* Lines of one, two and five fields
MalformedLines == { <<"Bar/", "1">>, <<"Bar/", "1", TAB, "ON">>,
                    Rec(Foo, "ON", "1", <<"3">>) \o <<TAB, "x">> }
\* A line of four fields whose level is no number
BadLevelLines == { Rec(Foo, "ON", "1", <<"x">>) }

AttrLines == WellFormedLines \cup MalformedLines \cup BadLevelLines

SeqsUpTo(S, n) == UNION {[1..k -> S] : k \in 0..n}

InitParse ==
    /\ InitState
    /\ pc = "call"
    /\ attr \in SeqsUpTo(AttrLines, MaxLines)
    /\ hostList = {}
    /\ exported = [s \in Servers |-> FALSE]
    /\ pingOk = exported
    /\ alive = exported
    /\ py3 = FALSE
    /\ hasData = TRUE

\* starter_servers = get_starter_servers(starter) with the attribute read
ParseCall ==
    /\ pc = "call"
    /\ LET parsed == get_starter_servers(attr) IN
       IF parsed.raised
       THEN Crash("ValueError@143") /\ UNCHANGED starter_servers
       ELSE pc' = "parsed" /\ starter_servers' = parsed.result /\ UNCHANGED raised
    /\ UNCHANGED env
    /\ UNCHANGED <<i, servers, todo, proxies, gauge, seen, popped, prevGauge,
                   quiet, changes, read, resolvedAt, fetched, lost>>

NextParse == ParseCall

SpecParse == InitParse /\ [][NextParse]_vars

\* ------------------------------------------------ properties: the snapshot

AllIn(lines, S) == \A k \in 1..Len(lines) : lines[k] \in S

\* The records of well-formed lines that are to be in the snapshot, and for
\* a server the last of them.
Included(lines) == {k \in 1..Len(lines) : RecordOf(lines[k])[4] # <<"0">>}
LastIncluded(lines, s) ==
    CHOOSE k \in Included(lines) :
        /\ RecordOf(lines[k])[1] = s
        /\ \A j \in Included(lines) : RecordOf(lines[j])[1] = s => j <= k

\* C6 (controlled-predicate correctness): after get_starter_servers has read
\* well-formed records only, it has returned; a server is a key of the
\* snapshot iff some record of it has a level other than "0", whatever the
\* controlled flag; and the entry of a key holds the integer value of the
\* level and ok = (state = "ON") of the server's last such record.
C6_ControlledPredicate ==
    (pc # "call" /\ AllIn(attr, WellFormedLines)) =>
        /\ pc = "parsed"
        /\ \A s \in Servers :
             s \in DOMAIN starter_servers <=>
                \E k \in 1..Len(attr) : /\ RecordOf(attr[k])[1] = s
                                        /\ RecordOf(attr[k])[4] # <<"0">>
        /\ \A s \in DOMAIN starter_servers :
             LET r == RecordOf(attr[LastIncluded(attr, s)]) IN
             /\ s \in Servers
             /\ starter_servers[s].level = LevelValue[r[4]]
             /\ starter_servers[s].ok = (r[2] = "ON")

\* C6's case: a record with controlled flag "0" and a level is in the
\* snapshot, a record with controlled flag "1" and level "0" is not.
C6_Witness ==
    /\ pc = "parsed"
    /\ AllIn(attr, WellFormedLines)
    /\ \E k \in 1..Len(attr) :
         /\ RecordOf(attr[k])[3] = "0"
         /\ RecordOf(attr[k])[4] = <<"1", "0">>
         /\ RecordOf(attr[k])[1] \in DOMAIN starter_servers
         /\ starter_servers[RecordOf(attr[k])[1]].level = 10
    /\ \E k \in 1..Len(attr) :
         /\ RecordOf(attr[k])[3] = "1"
         /\ RecordOf(attr[k])[4] = <<"0">>
         /\ RecordOf(attr[k])[1] \notin DOMAIN starter_servers

\* The snapshot of the well-formed lines among `lines`
WellFormedPart(lines) == SelectSeq(lines, LAMBDA l : l \in WellFormedLines)
ExpectedSnapshot(lines) ==
    [s \in {RecordOf(lines[k])[1] : k \in Included(lines)} |->
        LET r == RecordOf(lines[LastIncluded(lines, s)]) IN
        [ok |-> r[2] = "ON", level |-> LevelValue[r[4]]]]

\* C10 (malformed records are skipped per record): when the attribute holds
\* a record whose field count is not four among well-formed ones, the fetch
\* does not fail and returns the snapshot of the well-formed records.
C10_MalformedSkipped ==
    ( /\ pc # "call"
      /\ AllIn(attr, WellFormedLines \cup MalformedLines)
      /\ \E k \in 1..Len(attr) : attr[k] \in MalformedLines ) =>
        /\ pc = "parsed"
        /\ starter_servers = ExpectedSnapshot(WellFormedPart(attr))

\* ---------------------------------------------- properties: gather_data

\* A tick is over: the scan has visited every server and the loop sleeps.
TickOver == pc = "loop" /\ todo = {} /\ i > 0

DetailMetrics == ProcessMetrics \ {"running"}

\* C1 (series retirement): after a tick, a server that has no process in the
\* tracked table and is not in the latest supervisor snapshot has no series
\* in any of the ten gauges.
C1_SeriesRetired ==
    \A s \in Servers :
        (TickOver /\ s \notin DOMAIN servers /\ s \notin DOMAIN starter_servers)
            => \A m \in Metrics : gauge[m][s] = None

\* C2 (survival of the running indicator): after the tick in which the scan
\* found a server of the latest supervisor snapshot stopped (its process None
\* or its read raising NoSuchProcess), and after every later tick, the
\* server's running series exists with value 0 and it has no series in the
\* seven other process gauges.
C2_RunningSurvives ==
    \A s \in Servers :
        (TickOver /\ s \in DOMAIN popped /\ s \in DOMAIN starter_servers)
            => /\ gauge["running"][s] = Some(0)
               /\ \A m \in DetailMetrics : gauge[m][s] = None

\* C3 (PID-reuse safety): a server whose latest resolution saw the registry
\* report it exported while the ping of its dserver failed has no process in
\* the tracked table, whether or not the OS has a process with its PID; every
\* process in the table comes from a resolution whose ping succeeded.
C3_PidReuseSafety ==
    \A s \in DOMAIN servers :
        /\ (seen[s].exported /\ ~seen[s].pingOk) => servers[s] = None
        /\ servers[s] # None => (seen[s].exported /\ seen[s].pingOk)

\* C3's case: exported, the PID alive, the ping failing, and no process.
C3_Witness ==
    \E s \in DOMAIN servers :
        /\ seen[s].exported /\ seen[s].alive /\ ~seen[s].pingOk
        /\ ~seen[s].infoFails
        /\ servers[s] = None

\* The gauges hold what a successful visit of server a publishes.
Published(a) ==
    /\ \A m \in {"cpu_time_user", "cpu_time_system", "cpu_percent", "mem_rss",
                 "threads_n"} : gauge[m][a] = Some(Reading(Pid[a])[m])
    /\ hasData => gauge["mem_data"][a] = Some(Reading(Pid[a]).mem_data)
    /\ gauge["running"][a] \in {Some(0), Some(1)}
    /\ gauge["dserver_ping"][a] \in {Some(-1), Some(PingTime(a))}

\* C4 (partial-failure isolation): when the read of a server b has raised
\* NoSuchProcess and another server a is tracked with a live process, the
\* loop is still running, and once the tick is over a has been visited and
\* its gauges hold the values read for it.
C4_Isolation ==
    \A b \in DOMAIN popped : \A a \in DOMAIN servers :
        (popped[b] = "NoSuchProcess" /\ servers[a] # None /\ alive[a]) =>
            /\ pc = "loop"
            /\ todo = {} => Published(a)

\* Foo/1's process is alive and exported, the ping of its dserver fails, and
\* that is the one thing that ever changed in the environment: the host's
\* server list and the supervisor's table are those of the start.
OnlyFooHangs ==
    /\ changes = 1
    /\ exported[Foo] /\ alive[Foo] /\ ~pingOk[Foo]

\* C5 (idempotence of a tick), in the case the claim singles out, a server
\* whose process is alive and whose ping keeps failing: after the second of
\* two consecutive ticks with no environment event since the first began,
\* the series are those the first tick left, and every gauge but the
\* CPU-time gauges has the value the first tick left.
C5_Idempotent ==
    (TickOver /\ quiet = 2 /\ OnlyFooHangs) =>
        \A m \in Metrics : \A s \in Servers :
            /\ (gauge[m][s] = None) <=> (prevGauge[m][s] = None)
            /\ m \notin {"cpu_time_user", "cpu_time_system"}
                  => gauge[m][s] = prevGauge[m][s]

\* C7's host: Foo/1 exported, pingable, alive, level 3 and ON in the
\* supervisor's table; Bar/1 not exported and not in the table; the registry
\* answered every query of the first refresh.
FirstTickScenario ==
    /\ changes = 0
    /\ hostList = Servers
    /\ Up(Foo) /\ ~exported[Bar]
    /\ attr = <<Rec(Foo, "ON", "1", <<"3">>)>>
    /\ \A s \in DOMAIN seen : ~seen[s].infoFails

\* C7 (end-to-end first tick): on that host the first tick ends, with
\* running = 1, starter_controlled = 1 and starter_level = 3 for Foo/1 and no
\* series of any gauge for Bar/1.
C7_FirstTick ==
    (FirstTickScenario /\ i = 1 /\ (todo = {} \/ pc = "crashed")) =>
        /\ pc = "loop"
        /\ gauge["running"][Foo] = Some(1)
        /\ gauge["starter_controlled"][Foo] = Some(1)
        /\ gauge["starter_level"][Foo] = Some(3)
        /\ \A m \in Metrics : gauge[m][Bar] = None

\* C8 (a supervisor fetch failure is absorbed): a failing read of the Servers
\* attribute on a refresh tick does not end the loop.
C8_FetchFailureAbsorbed == raised = "DevFailed@143" => pc = "loop"

\* C9 (registry unavailability is never fatal): a failing query of the host's
\* server list on a refresh tick does not end the loop.
C9_RegistryFailureAbsorbed == raised = "DevFailed@142" => pc = "loop"

\* The CPU, memory and thread gauges of server a hold what the read of its
\* process returned (mem_data where the platform reports it).
ReadValues(a) ==
    /\ \A m \in {"cpu_time_user", "cpu_time_system", "cpu_percent", "mem_rss",
                 "threads_n"} : gauge[m][a] = Some(Reading(Pid[a])[m])
    /\ hasData => gauge["mem_data"][a] = Some(Reading(Pid[a]).mem_data)

\* C11 (degraded state): from the read of a tracked server whose process
\* answered and whose ping failed until the tick is over, running is 0 and
\* dserver_ping is -1 for it, its CPU, memory and thread gauges hold the
\* values read, and its entry keeps its process in the tracked table.
C11_Degraded ==
    \A s \in DOMAIN read :
        ~read[s] =>
            /\ gauge["running"][s] = Some(0)
            /\ gauge["dserver_ping"][s] = Some(-1)
            /\ ReadValues(s)
            /\ s \in DOMAIN servers /\ servers[s] = Some(Pid[s])

\* C11's case: a tick is over in which the ping of a server whose process
\* was read failed, after a tick that had published its ping time.
C11_Witness ==
    /\ TickOver
    /\ \E s \in DOMAIN read :
          ~read[s] /\ prevGauge["dserver_ping"][s] = Some(PingTime(s))

\* Server s has no process: the scan popped its entry (its process was None,
\* or its read raised NoSuchProcess), or its entry holds None.
NoProcess(s) ==
    \/ s \in DOMAIN popped
    \/ s \in DOMAIN servers /\ servers[s] = None

\* C12 (no process-detail series without a process): after every tick, a
\* server without a process has no series in the seven process gauges other
\* than running, and its running series, if it exists, is 0.
C12_NoDetailWithoutProcess ==
    TickOver =>
        \A s \in Servers :
            NoProcess(s) =>
                /\ \A m \in DetailMetrics : gauge[m][s] = None
                /\ gauge["running"][s] \in {None, Some(0)}

\* C12's case: a tick is over in which the read of a server raised
\* NoSuchProcess, and the tick before had left detail series for it.
C12_Witness ==
    /\ TickOver
    /\ \E s \in DOMAIN popped :
          /\ popped[s] = "NoSuchProcess"
          /\ \A m \in DetailMetrics \ {"mem_data"} : prevGauge[m][s] # None

\* C13 (retry on the next tick): after every tick, a server of the host's
\* list whose latest resolution returned no process was resolved in that
\* very tick: the tick after a failed resolution resolves again.
C13_RetryNextTick ==
    TickOver =>
        \A s \in DOMAIN resolvedAt \cap hostList :
            (s \in DOMAIN popped /\ popped[s] = "None") => resolvedAt[s] = i

\* The latest tick on which i % 60 == 0 held at line 140, for the tick i.
LatestRefreshTick == RefreshPeriod * ((i - 1) \div RefreshPeriod) + 1

\* C14 (refresh cadence): while the loop runs a tick, the latest fetch of
\* the supervisor snapshot is that of the latest tick that began with
\* i % 60 == 0 (the first tick, the 61st, ...), and the snapshot in use is
\* the one that fetch returned.
C14_RefreshCadence ==
    (pc = "loop" /\ i > 0) =>
        /\ fetched # None
        /\ fetched[1].tick = LatestRefreshTick
        /\ starter_servers = fetched[1].snapshot

\* C14's case: the 61st tick is over and has fetched a snapshot other than
\* the one of the first tick, which the 60th tick left in the gauges.
C14_Witness ==
    /\ TickOver /\ i = RefreshPeriod + 1
    /\ fetched = Some([tick |-> i, snapshot |-> starter_servers])
    /\ \E s \in DOMAIN starter_servers :
          prevGauge["starter_controlled"][s] # Some(1)

\* The host's server list, unchanged since gather_data began, has no server
\* of the Starter executable, and the registry answered the query for it.
NoStarterOnHost ==
    /\ changes = 0
    /\ raised # "DevFailed@37"
    /\ \A s \in hostList : ~StartsWith(s, <<"Starter/">>)

\* C15 (supervisor absent): on a host without a Starter server gather_data
\* gets past line 135 and keeps running its loop, and no tick creates a
\* starter_controlled or starter_level series.
C15_SupervisorAbsent ==
    (NoStarterOnHost /\ pc # "init") =>
        /\ pc = "loop"
        /\ \A m \in StarterMetrics : \A s \in Servers : gauge[m][s] = None

\* C16 (cheap path for unexported servers): in every state the program
\* reaches, get_server_process of a server the registry reports as not
\* exported returns no process and leaves the cache of handles as it was.
C16_CheapPath ==
    \A s \in Servers :
        ~exported[s] =>
            get_server_process(s, proxies, FALSE)
                = [process |-> None, proxies |-> proxies]

\* C16's case: the latest refresh resolved a server the registry reported
\* as not exported, and the cache has no handle for its dserver.
C16_Witness ==
    \E s \in DOMAIN seen :
        /\ ~seen[s].exported /\ ~seen[s].infoFails
        /\ s \in DOMAIN popped
        /\ Dserver(s) \notin DOMAIN proxies
        /\ \E d \in DOMAIN proxies : TRUE

\* C17 (the supervisor gauges track the latest snapshot): after a refresh
\* tick, a starter_controlled series is 1 exactly for a server of the
\* latest snapshot, and a starter_level series exists only for a server of
\* the latest snapshot and holds its level there.
C17_StarterGaugesTrackSnapshot ==
    (TickOver /\ i = LatestRefreshTick) =>
        \A s \in Servers :
            /\ gauge["starter_controlled"][s] # None =>
                  (gauge["starter_controlled"][s] = Some(1)
                      <=> s \in DOMAIN starter_servers)
            /\ gauge["starter_level"][s] # None =>
                  /\ s \in DOMAIN starter_servers
                  /\ gauge["starter_level"][s] = Some(starter_servers[s].level)

\* The latest resolution of server s found it exported, answering its ping
\* and alive.
SeenUp(s) ==
    /\ s \in DOMAIN seen
    /\ seen[s].exported /\ seen[s].pingOk /\ seen[s].alive
    /\ ~seen[s].infoFails

\* C18 (re-acquisition after a crash): for a server whose entry a read
\* raising NoSuchProcess removed, while the loop keeps ticking: fewer than
\* 60 ticks end before a refresh tick resolves it again; and after a tick
\* that follows that refresh, if the refresh found the server up and it is
\* still up, the table holds its process, its running series is 1 and its
\* CPU, memory and thread series hold what was read.
C18_Reacquired ==
    TickOver =>
        \A s \in DOMAIN lost :
            IF s \in DOMAIN popped
            THEN popped[s] = "NoSuchProcess" => i - lost[s] < RefreshPeriod
            ELSE (quiet >= 1 /\ SeenUp(s) /\ Up(s)) =>
                    /\ s \in DOMAIN servers /\ servers[s] = Some(Pid[s])
                    /\ gauge["running"][s] = Some(1)
                    /\ ReadValues(s)

\* C18's case: the refresh tick after the loss of a server is over, the
\* server is up again, and the tick has brought back its running series.
C18_Witness ==
    /\ TickOver /\ i = LatestRefreshTick /\ quiet >= 1
    /\ \E s \in DOMAIN lost :
          /\ s \notin DOMAIN popped
          /\ SeenUp(s) /\ Up(s)
          /\ prevGauge["running"][s] = None
          /\ gauge["running"][s] = Some(1)

\* The loop is about to begin a tick with i % 60 == 0.
RefreshTickBegins == pc = "loop" /\ todo = {} /\ i % RefreshPeriod = 0

\* C19 (the tracked table only shrinks between refreshes): every step but
\* the refresh that begins a tick with i % 60 == 0 leaves a table whose
\* servers were in the table before the step, each with the process it had;
\* so over a tick with i % 60 != 0 the table only shrinks, and a server or a
\* process enters it only on a refresh tick.
C19_TableOnlyShrinks ==
    [][ ~RefreshTickBegins =>
            /\ DOMAIN servers' \subseteq DOMAIN servers
            /\ \A s \in DOMAIN servers' : servers'[s] = servers[s] ]_vars

\* C19's case: a tick with i % 60 != 0 is over whose scan removed a server
\* from the table, while the registry would now resolve that server to a
\* process.
C19_Witness ==
    /\ TickOver /\ i # LatestRefreshTick
    /\ \E s \in DOMAIN lost :
          /\ lost[s] < i
          /\ s \notin DOMAIN servers
          /\ s \in hostList /\ Up(s)

\* C20 (the cache of communication handles): the cache holds one handle per
\* device path; a call of get_proxy for a path the cache holds returns the
\* handle held and leaves the cache as it was; and no step of the program
\* removes an entry or replaces its handle.
C20_ProxyCache ==
    [][ \A d \in DOMAIN proxies :
            /\ get_proxy(proxies, d) = proxies
            /\ ProxyOf(proxies, d) = proxies[d]
            /\ d \in DOMAIN proxies'
            /\ proxies'[d] = proxies[d] ]_vars

\* C20's case: the second tick is over, and its scan has pinged, through
\* get_proxy, a dserver whose handle the first tick had already used.
C20_Witness ==
    /\ TickOver /\ i = 2
    /\ \E s \in DOMAIN read :
          /\ prevGauge["dserver_ping"][s] # None
          /\ Dserver(s) \in DOMAIN proxies

====
